---- MODULE Spec2Model ----
(***************************************************************************)
(* Model of the parallel batch-dispatch transformer of scikit-fingerprints *)
(* (FingerprintTransformer.transform in src/base.py, with the Avalon       *)
(* computation unit of src/skfp/fingerprints/avalon.py).                   *)
(*                                                                         *)
(* One transformer object is constructed (Init) and then receives any      *)
(* sequence of fit / transform / fit_transform calls.  A transform call    *)
(* with n_jobs > 1 is a fork-join: the chunks are dispatched to joblib     *)
(* workers, which complete in any order.                                   *)
(***************************************************************************)
EXTENDS Integers, Sequences, FiniteSets, TLC

\* Bounds of the model.
MaxLen == 5
MaxJobs == 2
MaxInvalid == 1
FpSize == 2

Min(a, b) == IF a < b THEN a ELSE b
Max(a, b) == IF a > b THEN a ELSE b

(***************************************************************************)
(* Input entries.  An entry is a SMILES string, an rdkit Mol handle or a   *)
(* value of another type.  id identifies the structure; the string with    *)
(* id 0 is one that rdkit cannot parse.                                    *)
(***************************************************************************)
Entries ==
    { [kind |-> "str",   id |-> 0],
      [kind |-> "str",   id |-> 1],
      [kind |-> "Mol",   id |-> 2],
      [kind |-> "other", id |-> 0] }

None == [kind |-> "None", id |-> 0]

\* An entry the validator is meant to accept: a Mol handle or a parseable
\* string.
IsValidEntry(x) == x.kind \in {"Mol", "str"} /\ x.id # 0

Invalid(xs) == { i \in 1..Len(xs) : ~IsValidEntry(xs[i]) }

\* The inputs of the model: up to MaxLen entries, at most MaxInvalid of them
\* invalid.
Inputs ==
    { xs \in UNION { [1..n -> Entries] : n \in 0..MaxLen } :
        Cardinality(Invalid(xs)) <= MaxInvalid }

\* rdkit.Chem.MolFromSmiles: a Mol for a parseable string, None (no
\* exception) for an unparseable one.
MolFromSmiles(x) ==
    IF x.id = 0 THEN None ELSE [kind |-> "Mol", id |-> x.id]

\* GetAvalonFP(x, nBits): an opaque deterministic bit vector of a molecule.
GetAvalonFP(x, nBits) ==
    [j \in 1..nBits |-> IF (x.id + j) % 3 > 0 THEN 1 ELSE 0]

\* GetAvalonCountFP(x, nBits).ToList(): the count vector of the same features.
GetAvalonCountFP(x, nBits) ==
    [j \in 1..nBits |-> (x.id + j) % 3]

(***************************************************************************)
(* Arrays.  A dense array and a sparse matrix are modelled by their class  *)
(* and their list of rows.  An array built from an empty list of rows      *)
(* carries no column count.                                                *)
(***************************************************************************)
np_array(rows) == [kind |-> "ndarray", rows |-> rows]

csr_array(rows) == [kind |-> "csr_array", rows |-> rows]

NoArray == [kind |-> "None", rows |-> <<>>]

NRows(a) == Len(a.rows)

NCols(a) == IF a.rows = <<>> THEN 0 ELSE Len(a.rows[1])

\* What a call produces: a value, or a raised exception.
Ok(v) == [status |-> "ok", error |-> "", value |-> v]

Raised(e) == [status |-> "error", error |-> e, value |-> NoArray]

Pending == [status |-> "pending", error |-> "", value |-> NoArray]

(***************************************************************************)
(* Python's range(start, stop, step) and s[lo:hi].  A slice is kept with   *)
(* the index range it covers (0-based, hi exclusive).                      *)
(***************************************************************************)
PyRange(start, stop, step) ==
    LET n == IF stop <= start THEN 0 ELSE (stop - start + step - 1) \div step
    IN  [k \in 1..n |-> start + (k - 1) * step]

PySlice(s, lo, hi) ==
    LET l == Min(lo, Len(s))
        h == Max(l, Min(hi, Len(s)))
    IN  [lo |-> l, hi |-> h, items |-> SubSeq(s, l + 1, h)]

\* batch_size rounded up instead of down: -(-len(X) // self.n_jobs).
BatchSizeCeil(n, jobs) == Max((n + jobs - 1) \div jobs, 1)

\* batch_size = max(len(X) // self.n_jobs, 1)
BatchSize(n, jobs) == Max(n \div jobs, 1)

\* Chunks with the slice taken one entry too long: X[i : i + batch_size + 1].
ChunksOverlap(xs, bs) ==
    LET starts == PyRange(0, Len(xs), bs)
    IN  [k \in 1..Len(starts) |-> PySlice(xs, starts[k], starts[k] + bs + 1)]

\* Chunks with the range stopped early: range(0, len(X) - batch_size + 1,
\* batch_size), which drops a shorter final chunk.
ChunksDropRemainder(xs, bs) ==
    LET starts == PyRange(0, Len(xs) - bs + 1, bs)
    IN  [k \in 1..Len(starts) |-> PySlice(xs, starts[k], starts[k] + bs)]

\* args = (X[i : i + batch_size] for i in range(0, len(X), batch_size))
Chunks(xs, bs) ==
    LET starts == PyRange(0, Len(xs), bs)
    IN  [k \in 1..Len(starts) |-> PySlice(xs, starts[k], starts[k] + bs)]

(***************************************************************************)
(* The input validator.  Entries of a wrong type raise ValueError; strings *)
(* are parsed with MolFromSmiles, whose None is kept in the list.          *)
(***************************************************************************)
validate_input(xs) ==
    IF \E i \in 1..Len(xs) : xs[i].kind \notin {"Mol", "str"}
    THEN [status |-> "error", error |-> "ValueError", value |-> <<>>]
    ELSE [status |-> "ok", error |-> "",
          value |-> [i \in 1..Len(xs) |->
                       IF xs[i].kind = "str" THEN MolFromSmiles(xs[i])
                       ELSE xs[i]]]

(***************************************************************************)
(* The computation unit, AvalonFingerprint._calculate_fingerprint: the     *)
(* validator, then one fingerprint per molecule, then the array.  The      *)
(* rdkit functions reject a None argument with an ArgumentError.           *)
(***************************************************************************)
calculate_fingerprint(xs, cnt, sp, nBits) ==
    LET v == validate_input(xs)
    IN  IF v.status = "error" THEN Raised(v.error)
        ELSE IF \E i \in 1..Len(v.value) : v.value[i] = None
        THEN Raised("ArgumentError")
        ELSE LET rows == [i \in 1..Len(v.value) |->
                            IF cnt THEN GetAvalonCountFP(v.value[i], nBits)
                            ELSE GetAvalonFP(v.value[i], nBits)]
             IN  Ok(IF sp THEN csr_array(rows) ELSE np_array(rows))

(***************************************************************************)
(* The aggregator.                                                         *)
(***************************************************************************)
\* Row-wise concatenation with the chunks taken last to first.
RECURSIVE ConcatRowsReversed(_)
ConcatRowsReversed(rs) ==
    IF rs = <<>> THEN <<>>
    ELSE ConcatRowsReversed(Tail(rs)) \o Head(rs).value.rows

RECURSIVE ConcatRows(_)
ConcatRows(rs) ==
    IF rs = <<>> THEN <<>> ELSE Head(rs).value.rows \o ConcatRows(Tail(rs))

SameCols(rs) ==
    \A i, j \in 1..Len(rs) : NCols(rs[i].value) = NCols(rs[j].value)

\* np.concatenate(results)
np_concatenate(rs) ==
    IF SameCols(rs) THEN Ok(np_array(ConcatRows(rs))) ELSE Raised("ValueError")

\* sparse.vstack(results)
sparse_vstack(rs) ==
    IF SameCols(rs) THEN Ok(csr_array(ConcatRows(rs))) ELSE Raised("ValueError")

\* Line 50 of transform: the aggregation is chosen by the class of the first
\* chunk result; with no chunk result there is none to look at.
AggregationMode(rs) ==
    IF rs = <<>> THEN "none"
    ELSE IF rs[1].value.kind = "csr_array" THEN "vstack"
    ELSE "concatenate"

\* Lines 50-53 of transform: results[0] of an empty list raises IndexError.
Aggregated(rs) ==
    IF rs = <<>> THEN Raised("IndexError")
    ELSE IF AggregationMode(rs) = "vstack" THEN sparse_vstack(rs)
    ELSE np_concatenate(rs)

(***************************************************************************)
(* State.                                                                  *)
(***************************************************************************)
VARIABLES
    n_jobs,        \* self.n_jobs, the effective worker count
    count,         \* self.count
    sparse,        \* self.sparse
    fp_size,       \* self.fp_size
    init_params,   \* the configuration as it was at construction
    pc,            \* "idle", "parallel" (inside Parallel), "done"
    X,             \* the input of the running transform call
    batch_size,    \* local batch_size (0: not computed)
    args,          \* the chunks
    worker,        \* per chunk: "queued", "running", "done", "failed"
    validated,     \* per computation-unit call: what the validator gave
    results,       \* per chunk: what its computation-unit call produced
    out_of_order,  \* a chunk completed before a chunk of lower index
    mode,          \* the aggregation lines 50-53 chose ("none": none yet)
    outcome,       \* what transform produces
    returned       \* what the last call handed to its caller

vars == << n_jobs, count, sparse, fp_size, init_params, pc, X, batch_size,
           args, worker, validated, results, out_of_order, mode, outcome,
           returned >>

params == << n_jobs, count, sparse, fp_size >>

call_vars == << X, batch_size, args, worker, validated, results,
                out_of_order, mode, outcome >>

\* AvalonFingerprint(fp_size, count, sparse, n_jobs): effective_n_jobs
\* resolves n_jobs to a worker count >= 1.
Init ==
    /\ n_jobs \in 1..MaxJobs
    /\ count \in BOOLEAN
    /\ sparse \in BOOLEAN
    /\ fp_size = FpSize
    /\ init_params = << n_jobs, count, sparse, fp_size >>
    /\ pc = "idle"
    /\ X = <<>>
    /\ batch_size = 0
    /\ args = <<>>
    /\ worker = <<>>
    /\ validated = <<>>
    /\ results = <<>>
    /\ out_of_order = FALSE
    /\ mode = "none"
    /\ outcome = Pending
    /\ returned = "nothing"

(***************************************************************************)
(* Parallel(n_jobs)(...) keeps at most n_jobs chunks running: it hands the *)
(* chunks of the generator, in order, to free workers, and stops handing   *)
(* out chunks once a worker has failed.                                    *)
(***************************************************************************)
DispatchNext(w, jobs) ==
    IF \E j \in 1..Len(w) : w[j] = "failed" THEN w
    ELSE [k \in 1..Len(w) |->
            IF /\ w[k] = "queued"
               /\ Cardinality({ j \in 1..Len(w) : w[j] = "running" })
                    + Cardinality({ j \in 1..(k - 1) : w[j] = "queued" }) < jobs
            THEN "running" ELSE w[k]]

\* fit that resolves the worker count again, to one worker.
FitResolvesJobs ==
    /\ pc = "idle"
    /\ returned' = "self"
    /\ n_jobs' = 1
    /\ UNCHANGED << count, sparse, fp_size, init_params, pc, call_vars >>

\* fit(X, y): return self.
Fit ==
    /\ pc = "idle"
    /\ returned' = "self"
    /\ UNCHANGED << params, init_params, pc, call_vars >>

(***************************************************************************)
(* transform(X).  With n_jobs = 1 the computation unit runs on the whole   *)
(* input and the call is over.  Otherwise the chunks are built and handed  *)
(* to Parallel.                                                            *)
(***************************************************************************)
Transform(xs) ==
    /\ pc = "idle"
    /\ X' = xs
    /\ returned' = "nothing"
    /\ out_of_order' = FALSE
    /\ mode' = "none"
    /\ IF n_jobs = 1
       THEN /\ outcome' = calculate_fingerprint(xs, count, sparse, fp_size)
            /\ validated' = << validate_input(xs) >>
            /\ batch_size' = 0
            /\ args' = <<>>
            /\ worker' = <<>>
            /\ results' = <<>>
            /\ pc' = "done"
       ELSE /\ batch_size' = BatchSize(Len(xs), n_jobs)
            /\ args' = Chunks(xs, batch_size')
            /\ worker' = DispatchNext([k \in 1..Len(args') |-> "queued"], n_jobs)
            /\ validated' = [k \in 1..Len(args') |-> Pending]
            /\ results' = [k \in 1..Len(args') |-> Pending]
            /\ outcome' = Pending
            /\ pc' = "parallel"
    /\ UNCHANGED << params, init_params >>

\* fit_transform(X, y): return self.transform(X).
FitTransform(xs) == Transform(xs)

\* A worker runs the computation unit on its chunk; its result takes the
\* chunk's place in the list Parallel returns, and the freed worker gets the
\* next chunk.
Complete(k) ==
    /\ pc = "parallel"
    /\ k \in 1..Len(worker)
    /\ worker[k] = "running"
    /\ LET r == calculate_fingerprint(args[k].items, count, sparse, fp_size)
       IN  /\ results' = [results EXCEPT ![k] = r]
           /\ worker' = DispatchNext(
                  [worker EXCEPT
                     ![k] = IF r.status = "ok" THEN "done" ELSE "failed"],
                  n_jobs)
    /\ validated' = [validated EXCEPT ![k] = validate_input(args[k].items)]
    /\ out_of_order' =
          (out_of_order \/ \E j \in 1..(k - 1) : worker[j] = "running")
    /\ UNCHANGED << params, init_params, pc, X, batch_size, args, mode,
                    outcome, returned >>

\* Parallel re-raises the exception of a failed worker in the caller.
Reraise(k) ==
    /\ pc = "parallel"
    /\ k \in 1..Len(worker)
    /\ worker[k] = "failed"
    /\ outcome' = Raised(results[k].error)
    /\ pc' = "done"
    /\ UNCHANGED << params, init_params, X, batch_size, args, worker,
                    validated, results, out_of_order, mode, returned >>

\* Best-effort aggregation: once no chunk is running or queued, the results
\* of the chunks that succeeded are aggregated and returned.
AggregateBestEffort ==
    /\ pc = "parallel"
    /\ \A k \in 1..Len(worker) : worker[k] \in {"done", "failed"}
    /\ LET IsOk(r) == r.status = "ok"
       IN  /\ outcome' = Aggregated(SelectSeq(results, IsOk))
           /\ mode' = AggregationMode(SelectSeq(results, IsOk))
    /\ pc' = "done"
    /\ UNCHANGED << params, init_params, X, batch_size, args, worker,
                    validated, results, out_of_order, returned >>

\* Aggregation without the join: as soon as one chunk is done, the results
\* that are there are aggregated and returned.
AggregateEarly ==
    /\ pc = "parallel"
    /\ \E k \in 1..Len(worker) : worker[k] = "done"
    /\ LET IsOk(r) == r.status = "ok"
       IN  /\ outcome' = Aggregated(SelectSeq(results, IsOk))
           /\ mode' = AggregationMode(SelectSeq(results, IsOk))
    /\ pc' = "done"
    /\ UNCHANGED << params, init_params, X, batch_size, args, worker,
                    validated, results, out_of_order, returned >>

\* Parallel returns the list of results once every chunk is done; lines
\* 50-53 aggregate it.
Aggregate ==
    /\ pc = "parallel"
    /\ \A k \in 1..Len(worker) : worker[k] = "done"
    /\ mode' = AggregationMode(results)
    /\ outcome' = Aggregated(results)
    /\ pc' = "done"
    /\ UNCHANGED << params, init_params, X, batch_size, args, worker,
                    validated, results, out_of_order, returned >>

\* The call ends: the caller gets the output or the exception, and the
\* call's locals are gone.
Return ==
    /\ pc = "done"
    /\ returned' = IF outcome.status = "ok" THEN "output" ELSE "exception"
    /\ pc' = "idle"
    /\ X' = <<>>
    /\ batch_size' = 0
    /\ args' = <<>>
    /\ worker' = <<>>
    /\ validated' = <<>>
    /\ results' = <<>>
    /\ out_of_order' = FALSE
    /\ mode' = "none"
    /\ outcome' = Pending
    /\ UNCHANGED << params, init_params >>

Next ==
    \/ Fit
    \/ \E xs \in Inputs : Transform(xs)
    \/ \E xs \in Inputs : FitTransform(xs)
    \/ \E k \in 1..MaxLen : Complete(k)
    \/ \E k \in 1..MaxLen : Reraise(k)
    \/ Aggregate
    \/ Return

Spec == Init /\ [][Next]_vars


(***************************************************************************)
(* The same transformer with the scheduling the code relies on: a running  *)
(* worker finishes its chunk, and the calling thread, blocked in Parallel, *)
(* goes on as soon as it can: it re-raises a worker's exception,           *)
(* aggregates once every chunk is done, and returns.                       *)
(***************************************************************************)
FairSpec ==
    /\ Spec
    /\ WF_vars(\E k \in 1..MaxLen : Complete(k))
    /\ WF_vars(\E k \in 1..MaxLen : Reraise(k))
    /\ WF_vars(Aggregate)
    /\ WF_vars(Return)

(***************************************************************************)
(* Properties.                                                             *)
(***************************************************************************)

\* The fingerprint of one input entry under the transformer's parameters.
Fingerprint(x) ==
    LET m == IF x.kind = "str" THEN MolFromSmiles(x) ELSE x
    IN  IF count THEN GetAvalonCountFP(m, fp_size) ELSE GetAvalonFP(m, fp_size)

RECURSIVE SumRows(_)
SumRows(rs) ==
    IF rs = <<>> THEN 0 ELSE NRows(Head(rs).value) + SumRows(Tail(rs))

ParallelDone == pc = "done" /\ n_jobs > 1

\* C1: with n_jobs > 1, whatever the order in which the chunks complete, a
\* successful transform returns exactly one row per input entry and row i
\* is the fingerprint of entry i.
C1_OrderPreserved ==
    (ParallelDone /\ outcome.status = "ok") =>
        /\ NRows(outcome.value) = Len(X)
        /\ \A i \in 1..Len(X) : outcome.value.rows[i] = Fingerprint(X[i])

\* C1 witness: a successful parallel call over several chunks, one of which
\* completed before a chunk of lower index, on an input whose first and last
\* rows differ.
C1_Witness ==
    /\ ParallelDone
    /\ outcome.status = "ok"
    /\ out_of_order
    /\ Len(args) >= 3
    /\ Fingerprint(X[1]) # Fingerprint(X[Len(X)])

\* C2: the chunks partition the index range 0..N-1: every index lies in
\* exactly one chunk, every chunk is the contiguous slice of its range, the
\* first chunk starts at 0, each next chunk starts where the previous one
\* ends, and the last one ends at N.
C2_ChunksPartition ==
    (pc \in {"parallel", "done"} /\ n_jobs > 1) =>
        /\ \A i \in 0..(Len(X) - 1) :
              Cardinality({ k \in 1..Len(args) :
                              args[k].lo <= i /\ i < args[k].hi }) = 1
        /\ \A k \in 1..Len(args) :
              /\ args[k].lo <= args[k].hi
              /\ args[k].items = SubSeq(X, args[k].lo + 1, args[k].hi)
        /\ \A k \in 1..(Len(args) - 1) : args[k + 1].lo = args[k].hi
        /\ (Len(X) > 0) => (args[1].lo = 0 /\ args[Len(args)].hi = Len(X))
        /\ (Len(X) = 0) => (args = <<>>)

\* C2 witness: an input cut into three chunks, the last one shorter.
C2_Witness ==
    /\ pc = "parallel"
    /\ Len(args) = 3
    /\ Len(args[1].items) = 2
    /\ Len(args[3].items) = 1

\* C3: for the same input and parameters the parallel path (n_jobs > 1)
\* ends as the serial path does, one call of the computation unit on the
\* whole input: both succeed with the same output, or both fail.
C3_SerialEqualsParallel ==
    ParallelDone =>
        LET serial == calculate_fingerprint(X, count, sparse, fp_size)
        IN  /\ outcome.status = serial.status
            /\ outcome.value = serial.value

\* C4: transform of an empty input succeeds with an output of 0 rows and
\* fp_size columns, for every worker count.
C4_EmptyInput ==
    (pc = "done" /\ X = <<>>) =>
        /\ outcome.status = "ok"
        /\ NRows(outcome.value) = 0
        /\ NCols(outcome.value) = fp_size

\* C5: an input with an invalid entry is rejected before any chunk is
\* created and before any worker is started.
C5_ValidationBeforeDispatch ==
    (pc \in {"parallel", "done"} /\ Invalid(X) # {}) =>
        /\ args = <<>>
        /\ worker = <<>>
        /\ (pc = "done" => outcome.status = "error")

\* C6: the validator either fails or returns a list of the length of its
\* input in which no element is None.
C6_ValidatorNeverReturnsNone ==
    \A k \in 1..Len(validated) :
        validated[k].status = "ok" =>
            \A i \in 1..Len(validated[k].value) : validated[k].value[i] # None

\* C7: if the computation of a chunk failed, transform ends with an error
\* and no output, whatever the other chunks produced.
C7_AllOrNothing ==
    (ParallelDone /\ \E k \in 1..Len(worker) : worker[k] = "failed") =>
        /\ outcome.status = "error"
        /\ outcome.value = NoArray

\* C7 witness: a call that failed on one chunk after another chunk, of
\* higher index, had already produced its rows.
C7_Witness ==
    /\ ParallelDone
    /\ outcome.status = "error"
    /\ out_of_order
    /\ \E k \in 1..Len(worker) :
          /\ worker[k] = "failed"
          /\ \E j \in (k + 1)..Len(worker) :
                worker[j] = "done" /\ NRows(results[j].value) > 0

C9_ParamsImmutable ==
    /\ params = init_params
    /\ (returned = "self") =>
          /\ pc = "idle"
          /\ outcome = Pending
          /\ results = <<>>
          /\ validated = <<>>

\* C9 witness: a parallel transformer back at rest after a transform call
\* that failed.
C9_Witness ==
    /\ pc = "idle"
    /\ returned = "exception"
    /\ n_jobs > 1

\* C10: with n_jobs > 1 the input is cut into exactly n_jobs chunks, all of
\* the same length.
C10_EqualParts ==
    (pc \in {"parallel", "done"} /\ n_jobs > 1) =>
        /\ Len(args) = n_jobs
        /\ \A j, k \in 1..Len(args) : Len(args[j].items) = Len(args[k].items)

C12_ModeFromConfiguration ==
    (ParallelDone /\ \A k \in 1..Len(worker) : worker[k] = "done") =>
        /\ mode = (IF sparse THEN "vstack" ELSE "concatenate")
        /\ sparse => (outcome.status = "ok" /\ outcome.value.kind = "csr_array")

\* The join: lines 50-53 have run only if every chunk is done; a finished
\* parallel call has every chunk done or a failed chunk; and an output is
\* there only when no chunk is queued or running.
JoinSafety ==
    /\ (n_jobs > 1 /\ mode # "none") =>
          \A k \in 1..Len(worker) : worker[k] = "done"
    /\ ParallelDone =>
          \/ \A k \in 1..Len(worker) : worker[k] = "done"
          \/ \E k \in 1..Len(worker) : worker[k] = "failed"
    /\ (ParallelDone /\ outcome.status = "ok") =>
          \A k \in 1..Len(worker) : worker[k] = "done"

\* C13: fork-join.  In every state the join holds (JoinSafety), and, every
\* running worker eventually completing, a transform call inside Parallel
\* eventually returns to its caller.
C13_ForkJoin ==
    /\ []JoinSafety
    /\ (pc = "parallel") ~> (pc = "idle")

\* C13 witness: a parallel call with more chunks than workers, so that a
\* chunk waited for a free worker, finished with its output after all three
\* chunks were done.
C13_Witness ==
    /\ ParallelDone
    /\ outcome.status = "ok"
    /\ mode # "none"
    /\ Len(worker) = 3
    /\ out_of_order
    /\ \A k \in 1..Len(worker) : worker[k] = "done"

====
